---------------------------- MODULE Spec2Model ----------------------------
(***************************************************************************)
(* Model of src/inactivity_report.py: the line grammar (ADDED_PATTERN,     *)
(* JOINED_PATTERN, LINE_PATTERN), parse_date, the aggregation loop of      *)
(* analyze_chat, member_status_counts and the four outputs of main.        *)
(*                                                                         *)
(* Strings are TLA+ strings.  A datetime is the number of minutes since    *)
(* 0001-01-01 00:00 (the transcript's timestamps carry no seconds, and     *)
(* timedelta.days of a difference only depends on the minute the clock was *)
(* read in).  An optional datetime is <<>> (None) or <<t>>.  A percentage  *)
(* is kept in hundredths of a percent (2 decimal places).                  *)
(***************************************************************************)
EXTENDS Integers, Sequences, FiniteSets, TLC

(***************************************************************************)
(* Characters and strings                                                  *)
(***************************************************************************)
\* s[a..b] cut to the string, "" when empty
Sub(s, a, b) ==
    LET lo == IF a < 1 THEN 1 ELSE a
        hi == IF b > Len(s) THEN Len(s) ELSE b
    IN  IF lo > hi THEN "" ELSE SubSeq(s, lo, hi)

\* the character s[i], "" past either end
Ch(s, i) == IF i \in 1..Len(s) THEN SubSeq(s, i, i) ELSE ""

Digit == {"0", "1", "2", "3", "4", "5", "6", "7", "8", "9"}

\* what str.strip() removes and what \s matches
Whitespace == {" ", "\t", "\n", "\r"}

DigitValue(c) ==
    CASE c = "0" -> 0 [] c = "1" -> 1 [] c = "2" -> 2 [] c = "3" -> 3
      [] c = "4" -> 4 [] c = "5" -> 5 [] c = "6" -> 6 [] c = "7" -> 7
      [] c = "8" -> 8 [] c = "9" -> 9

RECURSIVE ToInt(_)
ToInt(s) ==
    IF s = "" THEN 0
    ELSE 10 * ToInt(Sub(s, 1, Len(s) - 1)) + DigitValue(Ch(s, Len(s)))

AllDigits(s) == \A i \in 1..Len(s) : Ch(s, i) \in Digit

\* "." of a regular expression matches every character but a line break
Dot(s) == \A i \in 1..Len(s) : Ch(s, i) # "\n"

\* the positions at which tok occurs in s
Occurrences(s, tok) ==
    {i \in 1..(Len(s) - Len(tok) + 1) : SubSeq(s, i, i + Len(tok) - 1) = tok}

Max(S) == CHOOSE x \in S : \A y \in S : y <= x

Min(S) == CHOOSE x \in S : \A y \in S : x <= y

strip(s) ==
    LET keep == {i \in 1..Len(s) : Ch(s, i) \notin Whitespace}
    IN  IF keep = {} THEN "" ELSE SubSeq(s, Min(keep), Max(keep))

\* the number of digits at s[i..], at most most
DigitRun(s, i, most) ==
    LET ok == {n \in 0..most : \A k \in 0..(n - 1) :
                   i + k <= Len(s) /\ Ch(s, i + k) \in Digit}
    IN  Max(ok)

(***************************************************************************)
(* The three patterns.  A match is the tuple of its groups, no match <<>>. *)
(***************************************************************************)
NoMatch == <<>>

\* ^(.*) added (.*)$ : group 1 is greedy, so it runs to the LAST " added "
AddedGroups(s, at) ==
    IF at = {} \/ ~Dot(s) THEN NoMatch
    ELSE <<Sub(s, 1, Max(at) - 1), Sub(s, Max(at) + 7, Len(s))>>

\* a bug: ^(.*?) added (.*)$, the first group stopping at the first token
ADDED_PATTERN_NonGreedy(s) ==
    IF Occurrences(s, " added ") = {} \/ ~Dot(s) THEN NoMatch
    ELSE <<Sub(s, 1, Min(Occurrences(s, " added ")) - 1),
           Sub(s, Min(Occurrences(s, " added ")) + 7, Len(s))>>

ADDED_PATTERN(s) == AddedGroups(s, Occurrences(s, " added "))

JoinedSuffix == " joined using this group's invite link"

\* ^(.*) joined using this group's invite link$
JOINED_PATTERN(s) ==
    LET n == Len(s) - Len(JoinedSuffix)
    IN  IF n >= 0 /\ SubSeq(s, n + 1, Len(s)) = JoinedSuffix /\ Dot(s)
        THEN <<Sub(s, 1, n)>>
        ELSE NoMatch

Meridiem == {"A", "P", "M", "a", "p", "m"}

\* the end of (?:\s?[APMapm]{2})? at s[p..], given that " - " must follow:
\* 0 when no alternative fits
AfterMeridiem(s, p) ==
    IF Sub(s, p, p + 2) = " - " THEN p
    ELSE IF Ch(s, p) \in Whitespace /\ Ch(s, p + 1) \in Meridiem
            /\ Ch(s, p + 2) \in Meridiem /\ Sub(s, p + 3, p + 5) = " - "
         THEN p + 3
    ELSE IF Ch(s, p) \in Meridiem /\ Ch(s, p + 1) \in Meridiem
            /\ Sub(s, p + 2, p + 4) = " - "
         THEN p + 2
    ELSE 0

\* one item of the date-and-time prefix: a literal, or min..max digits
Lit(t) == [lit |-> t, min |-> 0, max |-> 0]

Digits(lo, hi) == [lit |-> "", min |-> lo, max |-> hi]

\* \d{1,2}/\d{1,2}/\d{2,4}, \d{1,2}:\d{2}
DatePrefix ==
    << Digits(1, 2), Lit("/"), Digits(1, 2), Lit("/"), Digits(2, 4), Lit(", "),
       Digits(1, 2), Lit(":"), Digits(2, 2) >>

\* the length item matches at s[p..] (digits are taken greedily; the item
\* that follows never starts with a digit), -1 when it does not match
ItemLen(s, p, item) ==
    IF item.lit # ""
    THEN (IF Sub(s, p, p + Len(item.lit) - 1) = item.lit
          THEN Len(item.lit) ELSE 0 - 1)
    ELSE (IF DigitRun(s, p, item.max) >= item.min
          THEN DigitRun(s, p, item.max) ELSE 0 - 1)

\* the positions at which the items start at s[p..], then the position
\* after the last one; <<>> when an item does not match
RECURSIVE Scan(_, _, _, _)
RECURSIVE ScanNext(_, _, _, _, _)
Scan(s, p, items, acc) ==
    IF items = <<>> THEN Append(acc, p)
    ELSE ScanNext(s, p, items, acc, ItemLen(s, p, Head(items)))

ScanNext(s, p, items, acc, n) ==
    IF n < 0 THEN <<>> ELSE Scan(s, p + n, Tail(items), Append(acc, p))

\* the groups, p being where " - " starts and colon where ": " occurs in
\* the text after it: (.*?) stops at the first
LineGroups(s, p, colon) ==
    IF colon = {} THEN NoMatch
    ELSE <<Sub(s, 1, p - 1),
           Sub(s, p + 3, p + 1 + Min(colon)),
           Sub(s, p + 4 + Min(colon), Len(s))>>

LineAfterMeridiem(s, p) ==
    IF p = 0 \/ ~Dot(s) THEN NoMatch
    ELSE LineGroups(s, p, Occurrences(Sub(s, p + 3, Len(s)), ": "))

LineAfterDate(s, pos) ==
    IF pos = <<>> THEN NoMatch
    ELSE LineAfterMeridiem(s, AfterMeridiem(s, pos[Len(pos)]))

\* ^(\d{1,2}/\d{1,2}/\d{2,4}, \d{1,2}:\d{2}(?:\s?[APMapm]{2})?) - (.*?): (.*)$
LINE_PATTERN(s) == LineAfterDate(s, Scan(s, 1, DatePrefix, <<>>))

(***************************************************************************)
(* parse_date: datetime.strptime under four formats, first success wins.   *)
(***************************************************************************)
None == <<>>

Some(x) == <<x>>

IsLeap(y) == (y % 4 = 0) /\ ((y % 100 # 0) \/ (y % 400 = 0))

DaysInMonth(y, m) ==
    IF m = 2 THEN (IF IsLeap(y) THEN 29 ELSE 28)
    ELSE IF m \in {4, 6, 9, 11} THEN 30 ELSE 31

RECURSIVE DaysBeforeMonth(_, _)
DaysBeforeMonth(y, m) ==
    IF m = 1 THEN 0 ELSE DaysBeforeMonth(y, m - 1) + DaysInMonth(y, m - 1)

\* date(y, m, d).toordinal(): 1 for 0001-01-01
ToOrdinal(y, m, d) ==
    LET p == y - 1
    IN  p * 365 + (p \div 4) - (p \div 100) + (p \div 400)
          + DaysBeforeMonth(y, m) + d

MinutesPerDay == 24 * 60

\* datetime(y, m, d, h, mi) as minutes since 0001-01-01 00:00
DateTime(y, m, d, h, mi) ==
    (ToOrdinal(y, m, d) - 1) * MinutesPerDay + h * 60 + mi

Lower(c) ==
    CASE c = "A" -> "a" [] c = "P" -> "p" [] c = "M" -> "m" [] OTHER -> c

\* the formats of parse_date, in the order they are tried
formats ==
    << [dayFirst |-> TRUE,  year4 |-> TRUE,  h12 |-> FALSE],   \* %d/%m/%Y, %H:%M
       [dayFirst |-> TRUE,  year4 |-> FALSE, h12 |-> FALSE],   \* %d/%m/%y, %H:%M
       [dayFirst |-> FALSE, year4 |-> TRUE,  h12 |-> TRUE],    \* %m/%d/%Y, %I:%M %p
       [dayFirst |-> FALSE, year4 |-> FALSE, h12 |-> TRUE] >>  \* %m/%d/%y, %I:%M %p

\* the datetime of the fields of a date_str under fmt, None for ValueError:
\* a and b are the first two numbers, yy the year as written in ylen digits,
\* hh:mi the time, tail what follows the minutes
FromFields(a, b, yy, ylen, hh, mi, tail, fmt) ==
    LET day   == IF fmt.dayFirst THEN a ELSE b
        month == IF fmt.dayFirst THEN b ELSE a
        \* %Y is \d\d\d\d, %y is \d\d with the POSIX pivot 69
        year  == IF fmt.year4 THEN yy
                 ELSE IF yy <= 68 THEN 2000 + yy ELSE 1900 + yy
        hour  == IF ~fmt.h12 THEN hh
                 ELSE IF Lower(Ch(tail, 2)) = "p" THEN (hh % 12) + 12
                 ELSE hh % 12
        ok == /\ day \in 1..31
              /\ month \in 1..12
              /\ ylen = (IF fmt.year4 THEN 4 ELSE 2)
              /\ year >= 1
              /\ IF fmt.h12 THEN hh \in 1..12 ELSE hh \in 0..23
              /\ mi \in 0..59
              /\ IF fmt.h12
                 THEN /\ Len(tail) = 3
                      /\ Ch(tail, 1) \in Whitespace
                      /\ Lower(Ch(tail, 2)) \in {"a", "p"}
                      /\ Lower(Ch(tail, 3)) = "m"
                 ELSE tail = ""
              /\ day <= DaysInMonth(year, month)
    IN  IF ok THEN Some(DateTime(year, month, day, hour, mi)) ELSE None

\* pos being the positions of the items of DatePrefix in s
StrptimeAt(s, pos, fmt) ==
    IF pos = <<>> THEN None
    ELSE FromFields(ToInt(Sub(s, pos[1], pos[2] - 1)),
                    ToInt(Sub(s, pos[3], pos[4] - 1)),
                    ToInt(Sub(s, pos[5], pos[6] - 1)),
                    pos[6] - pos[5],
                    ToInt(Sub(s, pos[7], pos[8] - 1)),
                    ToInt(Sub(s, pos[9], pos[10] - 1)),
                    Sub(s, pos[10], Len(s)),
                    fmt)

\* datetime.strptime(date_str, fmt) for a date_str of LINE_PATTERN's group 1
strptime(date_str, fmt) ==
    StrptimeAt(date_str, Scan(date_str, 1, DatePrefix, <<>>), fmt)

RECURSIVE TryFormats(_, _)
TryFormats(date_str, i) ==
    IF i > Len(formats) THEN None
    ELSE IF strptime(date_str, formats[i]) # None
         THEN strptime(date_str, formats[i])
    ELSE TryFormats(date_str, i + 1)

\* a bug: the formats with a two-digit year are missing
parse_date_FourDigitYears(date_str) ==
    IF strptime(date_str, formats[1]) # None
    THEN strptime(date_str, formats[1])
    ELSE strptime(date_str, formats[3])

parse_date(date_str) == TryFormats(date_str, 1)

(***************************************************************************)
(* Transcript lines.  Each specification reads its lines from one of these *)
(* sets, in any order and any number of times.                             *)
(***************************************************************************)
\* messages, membership events and noise
ChatLines ==
    { "12/5/23, 14:05 - Alice: hello",
      "11/5/2023, 09:30 - Alice: earlier",
      "1/2/23, 9:15 PM - Bob: old news",
      "6/1/23, 2:05 PM - Carol: yo",
      "Bob added Carol",
      "Dave joined using this group's invite link\n",
      "Messages and calls are end-to-end encrypted." }

\* lines on the edges of the grammar
GrammarLines ==
    { "12/5/23, 14:05 - Alice: hello",
      "12/5/2023, 2:05 PM - Alice: other locale",
      "12/5/23, 14:05 - alice: lower case",
      "Alice added Bob added Erin",
      "12/5/23, 14:06 - Alice: I added Erin",
      " \tDave added  Erin \n",
      "Erin added Alice joined using this group's invite link",
      "12/5/23, 14:07 - Gina: who joined using this group's invite link",
      "13/13/23, 14:05 - Frank: hi",
      "12/5/23, 2:05PM - Frank: yo",
      "31/4/123, 10:00 - Frank: three-digit year",
      "" }

\* two senders and one member who never writes
VolumeLines ==
    { "12/5/23, 14:05 - Alice: hello",
      "6/1/23, 2:05 PM - Carol: yo",
      "Carol added Bob" }

AllLines == ChatLines \cup GrammarLines \cup VolumeLines

LocalsOfMatch(stripped, m) ==
    [ line     |-> stripped,
      m_added  |-> ADDED_PATTERN(stripped),
      m_joined |-> JOINED_PATTERN(stripped),
      m        |-> m,
      dt       |-> IF m = NoMatch THEN None ELSE parse_date(m[1]) ]

LocalsOfLine(stripped) == LocalsOfMatch(stripped, LINE_PATTERN(stripped))

\* the locals of one iteration of analyze_chat's loop over line l: the
\* stripped line, the three matches, and dt when LINE_PATTERN matched
Locals(l) == LocalsOfLine(strip(l))

\* every line's locals, evaluated once
locals == [l \in AllLines |-> Locals(l)]

(***************************************************************************)
(* The clock.  datetime.now() never runs backwards within a run; the two   *)
(* instants lie either side of the minute at which Alice's message of      *)
(* 2023-05-12 14:05 becomes 91 days old.                                   *)
(***************************************************************************)
NowInstants == {DateTime(2023, 8, 11, 14, 4), DateTime(2023, 8, 11, 14, 5)}

\* the one instant of the long transcripts: Carol's message of 2023-06-01
\* 14:05 is 71 days old to the minute, Alice's 91 days
VolumeInstant == DateTime(2023, 8, 11, 14, 5)

(***************************************************************************)
(* State                                                                   *)
(***************************************************************************)
VARIABLES
    pc,              \* the statement of main about to run
    line,            \* analyze_chat's stripped line, None outside its loop
    participants,    \* the defaultdict, as its items in insertion order
    total_messages,
    clock,           \* the latest value datetime.now() returned
    console,         \* what print_report printed
    csv,             \* what export_csv wrote
    leaderboard,     \* what plot_leaderboard drew
    pie,             \* what plot_activity_pie drew
    counted          \* history: the (sender, dt) of every message counted

vars == <<pc, line, participants, total_messages, clock, console, csv,
          leaderboard, pie, counted>>

Names(ps) == {ps[i].sender : i \in 1..Len(ps)}

IndexOf(ps, name) == CHOOSE i \in 1..Len(ps) : ps[i].sender = name

\* a bug: the record is assigned afresh, not looked up
TouchResets(ps, name) ==
    IF name \in Names(ps)
    THEN [ps EXCEPT ![IndexOf(ps, name)] =
            [sender |-> name, messages |-> 0, last |-> None]]
    ELSE Append(ps, [sender |-> name, messages |-> 0, last |-> None])

\* participants[name]: the default factory makes the record on first access
Touch(ps, name) ==
    IF name \in Names(ps) THEN ps
    ELSE Append(ps, [sender |-> name, messages |-> 0, last |-> None])

\* a bug: the message that creates the record is not counted
CountAfterFirst(ps, sender, dt) ==
    IF sender \in Names(ps)
    THEN [ps EXCEPT ![IndexOf(ps, sender)].messages = @ + 1,
                    ![IndexOf(ps, sender)].last =
                        IF @ = None \/ dt[1] > @[1] THEN dt ELSE @]
    ELSE Append(ps, [sender |-> sender, messages |-> 0, last |-> dt])

\* a bug: last is assigned whatever the record holds
CountLastWritten(ps, sender, dt) ==
    IF sender \in Names(ps)
    THEN [ps EXCEPT ![IndexOf(ps, sender)].messages = @ + 1,
                    ![IndexOf(ps, sender)].last = dt]
    ELSE Append(ps, [sender |-> sender, messages |-> 1, last |-> dt])

\* lines 60-63: count one message of sender at dt
Count(ps, sender, dt) ==
    LET qs == Touch(ps, sender)
        i  == IndexOf(qs, sender)
        r  == qs[i]
    IN  [qs EXCEPT ![i] =
            [r EXCEPT !.messages = r.messages + 1,
                      !.last = IF r.last = None \/ dt[1] > r.last[1]
                               THEN dt ELSE r.last]]

\* a bug: the digits after the second decimal are cut off
Round2Truncated(messages, total) == (messages * 10000) \div total

\* round(x, 2) of x = messages/total*100, in hundredths: the nearest
\* hundredth, a tie going to the even one (exact for totals below 160)
Round2(messages, total) ==
    LET num == messages * 10000
        q   == num \div total
        r   == num % total
    IN  IF 2 * r < total THEN q
        ELSE IF 2 * r > total THEN q + 1
        ELSE IF q % 2 = 0 THEN q ELSE q + 1

\* line 67
Contribution(messages, total) ==
    IF total # 0 THEN Round2(messages, total) ELSE 0

Init ==
    /\ pc = "analyze_chat"
    /\ line = None
    /\ participants = <<>>
    /\ total_messages = 0
    /\ clock = Min(NowInstants)
    /\ console = <<>>
    /\ csv = <<>>
    /\ leaderboard = <<>>
    /\ pie = <<>>
    /\ counted = {}

\* is line l counted as a message
Counted(v) ==
    /\ v.m_added = NoMatch
    /\ v.m_joined = NoMatch
    /\ v.m # NoMatch
    /\ v.dt # None

IsCounted(l) == Counted(locals[l])

\* a bug: LINE_PATTERN is tried before the two membership patterns
ReadLineMessageFirst(l, cap) ==
    /\ pc = "analyze_chat"
    /\ \E v \in {locals[l]} :
          /\ (v.m # NoMatch /\ v.dt # None) => total_messages < cap
          /\ line' = Some(v.line)
          /\ IF v.m # NoMatch /\ v.dt # None
             THEN /\ participants' = Count(participants, v.m[2], v.dt)
                  /\ total_messages' = total_messages + 1
                  /\ counted' = counted \cup {<<v.m[2], v.dt[1]>>}
             ELSE IF v.m_added # NoMatch
             THEN /\ participants' = Touch(participants, strip(v.m_added[2]))
                  /\ UNCHANGED <<total_messages, counted>>
             ELSE IF v.m_joined # NoMatch
             THEN /\ participants' = Touch(participants, strip(v.m_joined[1]))
                  /\ UNCHANGED <<total_messages, counted>>
             ELSE UNCHANGED <<participants, total_messages, counted>>
    /\ UNCHANGED <<pc, clock, console, csv, leaderboard, pie>>

\* one iteration of the loop of analyze_chat (lines 34-63) on line l
ReadLine(l, cap) ==
    /\ pc = "analyze_chat"
    /\ IsCounted(l) => total_messages < cap
    /\ \E v \in {locals[l]} :
          /\ line' = Some(v.line)
          /\ IF v.m_added # NoMatch
             THEN /\ participants' = Touch(participants, strip(v.m_added[2]))
                  /\ UNCHANGED <<total_messages, counted>>
             ELSE IF v.m_joined # NoMatch
             THEN /\ participants' = Touch(participants, strip(v.m_joined[1]))
                  /\ UNCHANGED <<total_messages, counted>>
             ELSE IF v.m = NoMatch \/ v.dt = None
             THEN UNCHANGED <<participants, total_messages, counted>>
             ELSE /\ participants' = Count(participants, v.m[2], v.dt)
                  /\ total_messages' = total_messages + 1
                  /\ counted' = counted \cup {<<v.m[2], v.dt[1]>>}
    /\ UNCHANGED <<pc, clock, console, csv, leaderboard, pie>>

\* the end of the file: lines 65-69
Finalize ==
    /\ pc = "analyze_chat"
    /\ participants' =
         [i \in 1..Len(participants) |->
            [sender       |-> participants[i].sender,
             messages     |-> participants[i].messages,
             last         |-> participants[i].last,
             contribution |-> Contribution(participants[i].messages,
                                           total_messages)]]
    /\ pc' = "print_report"
    /\ line' = None
    /\ UNCHANGED <<total_messages, clock, console, csv, leaderboard, pie,
                   counted>>

(***************************************************************************)
(* Status.  The source spells the test out at five places; each is kept.   *)
(***************************************************************************)
\* (now - last).days: whole days, rounded down
days(now, last) == (now - last[1]) \div MinutesPerDay

\* contribution >= 1, the contribution being in hundredths
AtLeastOnePercent(stats) == stats.contribution >= 100

DefaultInactivityDays == 90

\* a bug: the contribution gate is left out
IsActiveWithoutShare(stats, now, inactivity_days) ==
    /\ stats.messages >= 1
    /\ stats.last # None
    /\ (now - stats.last[1]) \div MinutesPerDay <= inactivity_days

\* line 77
IsActive(stats, now, inactivity_days) ==
    /\ stats.messages >= 1
    /\ AtLeastOnePercent(stats)
    /\ stats.last # None
    /\ days(now, stats.last) <= inactivity_days

\* lines 72-81: <<active_count, inactive_count>>
member_status_counts(ps, inactivity_days, now) ==
    LET active == {i \in 1..Len(ps) : IsActive(ps[i], now, inactivity_days)}
    IN  <<Cardinality(active), Len(ps) - Cardinality(active)>>

\* line 96: the first component of the sort key
SortKeyStatus(stats, now) ==
    IF /\ stats.messages >= 1
       /\ AtLeastOnePercent(stats)
       /\ stats.last # None
       /\ days(now, stats.last) <= 90
    THEN 0 ELSE 1

\* a bug: the key is the message count alone
KeyLessByMessages(x, y, now) == (0 - x.messages) < (0 - y.messages)

\* lines 95-98: does x sort strictly before y
KeyLess(x, y, now) ==
    \/ SortKeyStatus(x, now) < SortKeyStatus(y, now)
    \/ /\ SortKeyStatus(x, now) = SortKeyStatus(y, now)
       /\ (0 - x.messages) < (0 - y.messages)

\* lines 102-104
ReportStatus(stats, now) ==
    IF /\ stats.messages >= 1
       /\ AtLeastOnePercent(stats)
       /\ stats.last # None
       /\ days(now, stats.last) <= 90
    THEN "Active" ELSE "Inactive"

\* lines 116-118
CsvStatus(stats, now) ==
    IF /\ stats.messages >= 1
       /\ AtLeastOnePercent(stats)
       /\ stats.last # None
       /\ days(now, stats.last) <= 90
    THEN "Active" ELSE "Inactive"

\* line 152
PieInactive(stats, now, inactivity_days) ==
    \/ stats.messages < 1
    \/ stats.contribution < 100
    \/ stats.last = None
    \/ days(now, stats.last) > inactivity_days

(***************************************************************************)
(* sorted(): a stable sort.  An element comes after the elements that sort *)
(* strictly before it and after the equal ones that stood before it.       *)
(***************************************************************************)
Rank(seq, i, less) ==
    1 + Cardinality({j \in 1..Len(seq) :
            \/ less[j][i]
            \/ ~less[i][j] /\ j < i})

\* less[i][j]: does seq[i] sort strictly before seq[j]
sorted(seq, less) ==
    [k \in 1..Len(seq) |->
        seq[CHOOSE i \in 1..Len(seq) : Rank(seq, i, less) = k]]

(***************************************************************************)
(* The outputs of main                                                     *)
(***************************************************************************)
\* lines 84-105
PrintReport(instants) ==
    /\ pc = "print_report"
    /\ \E now1 \in instants, now \in instants :
          /\ clock <= now1 /\ now1 <= now
          /\ LET counts == member_status_counts(participants,
                                                DefaultInactivityDays, now1)
                 sorted_participants ==
                     sorted(participants,
                            [i \in 1..Len(participants) |->
                               [j \in 1..Len(participants) |->
                                  KeyLess(participants[i], participants[j],
                                          now)]])
             IN  console' =
                   [ total_members  |-> Len(participants),
                     active_count   |-> counts[1],
                     inactive_count |-> counts[2],
                     total_messages |-> total_messages,
                     rows |-> [i \in 1..Len(sorted_participants) |->
                                 [ sender       |-> sorted_participants[i].sender,
                                   messages     |-> sorted_participants[i].messages,
                                   contribution |-> sorted_participants[i].contribution,
                                   status       |-> ReportStatus(sorted_participants[i], now) ]] ]
          /\ clock' = now
    /\ pc' = "export_csv"
    /\ UNCHANGED <<line, participants, total_messages, csv, leaderboard, pie,
                   counted>>

\* lines 108-125
ExportCsv(instants) ==
    /\ pc = "export_csv"
    /\ \E now \in instants, now2 \in instants :
          /\ clock <= now /\ now <= now2
          /\ LET counts == member_status_counts(participants,
                                                DefaultInactivityDays, now2)
             IN  csv' =
                   [ rows |-> [i \in 1..Len(participants) |->
                                 [ sender       |-> participants[i].sender,
                                   messages     |-> participants[i].messages,
                                   contribution |-> participants[i].contribution,
                                   status       |-> CsvStatus(participants[i], now) ]],
                     total_members    |-> Len(participants),
                     active_members   |-> counts[1],
                     inactive_members |-> counts[2] ]
          /\ clock' = now2
    /\ pc' = "plot_leaderboard"
    /\ UNCHANGED <<line, participants, total_messages, console, leaderboard,
                   pie, counted>>

\* line 129: more messages first
MoreMessages(x, y) == x.messages > y.messages

\* lines 128-145
PlotLeaderboard ==
    /\ pc = "plot_leaderboard"
    /\ LET all == sorted(participants,
                      [i \in 1..Len(participants) |->
                         [j \in 1..Len(participants) |->
                            MoreMessages(participants[i], participants[j])]])
           sorted_participants ==
               SubSeq(all, 1, IF Len(all) < 5 THEN Len(all) ELSE 5)
       IN  leaderboard' =
             [ names |-> [i \in 1..Len(sorted_participants) |->
                            sorted_participants[i].sender],
               msgs  |-> [i \in 1..Len(sorted_participants) |->
                            sorted_participants[i].messages] ]
    /\ pc' = "plot_activity_pie"
    /\ UNCHANGED <<line, participants, total_messages, clock, console, csv,
                   pie, counted>>

\* lines 148-159
PlotActivityPie(instants) ==
    /\ pc = "plot_activity_pie"
    /\ \E now \in instants :
          /\ clock <= now
          /\ LET inactive_count ==
                     Cardinality({i \in 1..Len(participants) :
                         PieInactive(participants[i], now,
                                     DefaultInactivityDays)})
             IN  pie' = [ active_count   |-> Len(participants) - inactive_count,
                          inactive_count |-> inactive_count ]
          /\ clock' = now
    /\ pc' = "done"
    /\ UNCHANGED <<line, participants, total_messages, console, csv,
                   leaderboard, counted>>

(***************************************************************************)
(* Specifications                                                          *)
(***************************************************************************)
MaxMessages == 4

MaxGrammarMessages == 3

MaxVolume == 101

\* main after analyze_chat, the clock being read among instants
Report(instants) ==
    \/ PrintReport(instants)
    \/ ExportCsv(instants)
    \/ PlotLeaderboard
    \/ PlotActivityPie(instants)

Next ==
    \/ \E l \in ChatLines : ReadLine(l, MaxMessages)
    \/ Finalize
    \/ Report(NowInstants)

Spec == Init /\ [][Next]_vars

NextGrammar ==
    \/ \E l \in GrammarLines : ReadLine(l, MaxGrammarMessages)
    \/ Finalize
    \/ Report(NowInstants)

SpecGrammar == Init /\ [][NextGrammar]_vars

NextVolume ==
    \/ \E l \in VolumeLines : ReadLine(l, MaxVolume)
    \/ Finalize
    \/ Report({VolumeInstant})

SpecVolume == Init /\ [][NextVolume]_vars

(***************************************************************************)
(* Claims                                                                  *)
(***************************************************************************)
RECURSIVE SumMessages(_)
SumMessages(rows) ==
    IF rows = <<>> THEN 0
    ELSE rows[1].messages + SumMessages(Tail(rows))

\* C1: at every point of the run the messageCounts of the records add up to
\* totalMessages, and once the CSV is written it has one row per record, in
\* the record's order and with its messageCount, so the Messages column adds
\* up to totalMessages too.
C1_SumIsTotal ==
    /\ SumMessages(participants) = total_messages
    /\ csv # <<>> =>
         /\ Len(csv.rows) = Len(participants)
         /\ \A i \in 1..Len(participants) :
               /\ csv.rows[i].sender = participants[i].sender
               /\ csv.rows[i].messages = participants[i].messages
         /\ SumMessages(csv.rows) = total_messages

\* a CSV of a transcript with several senders, a member who never wrote
\* and more than one message of one sender
C1_Witness ==
    /\ csv # <<>>
    /\ total_messages = 4
    /\ \E i, j, k \in 1..Len(participants) :
          /\ participants[i].messages = 0
          /\ participants[j].messages = 1
          /\ participants[k].messages >= 2

\* the thresholds the status rule is tried with: on Carol's 71 days, a day
\* less, on the default and around it
Thresholds == {0, 70, 71, 90, 91}

\* C2's rule, stated on instants: still within inactivityDays whole days
C2_Active(stats, now, inactivityDays) ==
    /\ stats.messages >= 1
    /\ stats.contribution >= 100
    /\ stats.last # None
    /\ now - stats.last[1] < (inactivityDays + 1) * MinutesPerDay

\* C2: for the finalized records, every threshold and every instant,
\* member_status_counts counts as Active exactly the records with
\* messageCount >= 1, contributionPercent >= 1, a lastMessageTimestamp and
\* (now - lastMessageTimestamp).days <= inactivityDays, and as Inactive all
\* others, so the two counts add up to the number of records; the summary of
\* print_report is the count at the default threshold.
C2_StatusRule ==
    pc # "analyze_chat" =>
      /\ \A now \in NowInstants \cup {VolumeInstant}, d \in Thresholds :
            LET active == {i \in 1..Len(participants) :
                              C2_Active(participants[i], now, d)}
                counts == member_status_counts(participants, d, now)
            IN  /\ counts[1] = Cardinality(active)
                /\ counts[2] = Len(participants) - Cardinality(active)
                /\ counts[1] + counts[2] = Len(participants)
      /\ console # <<>> =>
            /\ console.active_count =
                 Cardinality({i \in 1..Len(participants) :
                     C2_Active(participants[i], VolumeInstant,
                               DefaultInactivityDays)})
            /\ console.active_count + console.inactive_count
                 = Len(participants)

\* print_report has counted: Carol wrote 71 days ago but has under 1% of the
\* messages, Bob never wrote, Alice has her share but wrote 91 days ago; all
\* three are Inactive at the default threshold, and Carol would be whatever
\* the threshold
C2_Witness ==
    /\ console # <<>>
    /\ console.active_count = 0
    /\ console.inactive_count = 3
    /\ \E i, j, k \in 1..Len(participants) :
          /\ participants[i].sender = "Carol"
          /\ participants[i].messages = 1
          /\ participants[i].contribution = 99
          /\ VolumeInstant - participants[i].last[1] = 71 * MinutesPerDay
          /\ participants[j].sender = "Bob"
          /\ participants[j].messages = 0
          /\ participants[j].last = None
          /\ participants[k].sender = "Alice"
          /\ participants[k].messages = 100

\* where the record of name was created: its place in the insertion order
Created(name) == IndexOf(participants, name)

\* C3: the table of print_report lists every record once, every Active row
\* before every Inactive row, rows of one status by messageCount descending,
\* and rows of one status and one messageCount in the order their records
\* were created.
C3_ReportOrder ==
    console # <<>> =>
      /\ Len(console.rows) = Len(participants)
      /\ \A i \in 1..Len(participants) :
            \E k \in 1..Len(console.rows) :
               /\ console.rows[k].sender = participants[i].sender
               /\ console.rows[k].messages = participants[i].messages
      /\ \A i, j \in 1..Len(console.rows) :
            i < j =>
              LET a == console.rows[i]
                  b == console.rows[j]
              IN  /\ ~(a.status = "Inactive" /\ b.status = "Active")
                  /\ a.status = b.status => a.messages >= b.messages
                  /\ (a.status = b.status /\ a.messages = b.messages)
                       => Created(a.sender) < Created(b.sender)

\* the example, scaled: Alice (Active, 1), Bob (Inactive, 2) and Carol
\* (Active, 1) created in this order are listed Alice, Carol, Bob
C3_Witness ==
    /\ console # <<>>
    /\ Len(participants) = 3
    /\ participants[1].sender = "Alice" /\ participants[1].messages = 1
    /\ participants[2].sender = "Bob" /\ participants[2].messages = 2
    /\ participants[3].sender = "Carol" /\ participants[3].messages = 1
    /\ Len(console.rows) = 3
    /\ console.rows[1].sender = "Alice" /\ console.rows[1].status = "Active"
    /\ console.rows[2].sender = "Carol" /\ console.rows[2].status = "Active"
    /\ console.rows[3].sender = "Bob" /\ console.rows[3].status = "Inactive"

\* the loop reads line l in this step
Reads(l) == ReadLine(l, total_messages + 1)

\* what the claims about the grammar say of line l, read off the stripped
\* line: whether it holds the token " added " and what follows its first and
\* its last occurrence, whether it ends in the joined-via-link text and what
\* precedes it
Reading(l) ==
    [ added       |-> Occurrences(strip(l), " added ") # {},
      afterFirst  |-> IF Occurrences(strip(l), " added ") = {} THEN ""
                      ELSE strip(Sub(strip(l),
                             Min(Occurrences(strip(l), " added ")) + 7,
                             Len(strip(l)))),
      afterLast   |-> IF Occurrences(strip(l), " added ") = {} THEN ""
                      ELSE strip(Sub(strip(l),
                             Max(Occurrences(strip(l), " added ")) + 7,
                             Len(strip(l)))),
      joined      |-> Sub(strip(l), Len(strip(l)) - Len(JoinedSuffix) + 1,
                          Len(strip(l))) = JoinedSuffix,
      beforeJoined |-> strip(Sub(strip(l), 1,
                                 Len(strip(l)) - Len(JoinedSuffix))) ]

\* every line's reading, evaluated once
reading == [l \in AllLines |-> Reading(l)]

\* C4 as stated: a line holding " added " creates (at most) the record keyed
\* by what follows the FIRST " added ", surrounding blanks apart.
C4_FirstAdded ==
    [][\A l \in GrammarLines :
          (reading[l].added /\ Reads(l)) =>
             Names(participants') =
                Names(participants) \cup {reading[l].afterFirst}]_vars

\* C4 amended: a line holding " added " is split at the LAST " added " (the
\* first group is greedy); the record it creates is keyed by what follows
\* that last token, surrounding blanks apart, and no other record is made.
C4_LastAdded ==
    [][\A l \in GrammarLines :
          (reading[l].added /\ Reads(l)) =>
             Names(participants') =
                Names(participants) \cup {reading[l].afterLast}]_vars

\* "Alice added Bob added Erin" was read: there is a record of "Erin" and
\* none of "Bob added Erin"
C4_Witness ==
    /\ line = Some("Alice added Bob added Erin")
    /\ "Erin" \in Names(participants)
    /\ "Bob added Erin" \notin Names(participants)
    /\ reading["Alice added Bob added Erin"].afterFirst = "Bob added Erin"
    /\ reading["Alice added Bob added Erin"].afterLast = "Erin"

\* no record there is changes, and a record that appears has no message
NothingCounted ==
    /\ total_messages' = total_messages
    /\ counted' = counted
    /\ Len(participants') >= Len(participants)
    /\ \A i \in 1..Len(participants) : participants'[i] = participants[i]
    /\ \A i \in (Len(participants) + 1)..Len(participants') :
          participants'[i].messages = 0 /\ participants'[i].last = None

\* C5: the patterns are tried in the order added, joined, message and the
\* first match wins.  A line that matches the added pattern makes the added
\* member's record, also when it matches the joined pattern too; a line that
\* matches the joined pattern only makes the joining member's record; and
\* neither is ever counted as a message, also when it has the shape of a
\* timestamped message with a date that parses: totalMessages, every
\* messageCount and every lastMessageTimestamp stay as they are.
C5_EventsNotCounted ==
    [][\A l \in GrammarLines :
          /\ ((reading[l].added \/ reading[l].joined) /\ Reads(l))
                => NothingCounted
          /\ (reading[l].added /\ Reads(l)) =>
                Names(participants') =
                   Names(participants) \cup {reading[l].afterLast}
          /\ (reading[l].joined /\ ~reading[l].added /\ Reads(l)) =>
                Names(participants') =
                   Names(participants) \cup {reading[l].beforeJoined}]_vars

\* lines of the shape of a message with a date that parses, holding " added "
\* or ending in the joined text, and a line matching both membership
\* patterns were read: their records are there, nothing was counted and the
\* senders Alice and Gina have no record
C5_Witness ==
    /\ line = Some("12/5/23, 14:06 - Alice: I added Erin")
    /\ LINE_PATTERN("12/5/23, 14:06 - Alice: I added Erin") # NoMatch
    /\ parse_date("12/5/23, 14:06") # None
    /\ parse_date("12/5/23, 14:07") # None
    /\ Names(participants) =
          { "Erin", "12/5/23, 14:07 - Gina: who",
            "Alice joined using this group's invite link" }
    /\ total_messages = 0
    /\ \A i \in 1..Len(participants) :
          participants[i].messages = 0 /\ participants[i].last = None

\* the member a membership line is about
EventName(l) ==
    IF reading[l].added THEN reading[l].afterLast
    ELSE reading[l].beforeJoined

\* C6: reading a MemberAddedEvent or MemberJoinedEvent for name n leaves
\* totalMessages and every record there is as they are; if n has no record
\* one is appended with messageCount 0 and no lastMessageTimestamp, and no
\* other record is made (none for the member who added n); if n has a record,
\* as after a first reading of the same line, nothing changes at all.
C6_EventFrame ==
    [][\A l \in ChatLines :
          ((reading[l].added \/ reading[l].joined) /\ Reads(l)) =>
             /\ total_messages' = total_messages
             /\ counted' = counted
             /\ IF EventName(l) \in Names(participants)
                THEN participants' = participants
                ELSE participants' =
                       Append(participants,
                              [sender |-> EventName(l), messages |-> 0,
                               last |-> None])
             /\ \E v \in {participants'} :
                   \* reading the line once more changes nothing
                   Touch(v, EventName(l)) = v]_vars

\* "Bob added Carol" and the joining of Dave were read where Alice had two
\* messages: Carol and Dave have records without messages, Bob has none, and
\* Alice's record and the total are as they were
C6_Witness ==
    /\ line = Some("Bob added Carol")
    /\ Names(participants) = {"Alice", "Carol", "Dave"}
    /\ total_messages = 2
    /\ \E i, j, k \in 1..Len(participants) :
          /\ participants[i] = [sender |-> "Carol", messages |-> 0, last |-> None]
          /\ participants[j] = [sender |-> "Dave", messages |-> 0, last |-> None]
          /\ participants[k].sender = "Alice" /\ participants[k].messages = 2
          /\ k < i /\ k < j

\* the formats, in their order, under which date_str parses in full
ParsingFormats(date_str) ==
    {i \in 1..Len(formats) : strptime(date_str, formats[i]) # None}

\* what C7 says of line l: whether it has the shape of a timestamped message,
\* its sender, whether its date-and-time parses under one of the four formats
\* and the datetime under the first that does
Dating(l) ==
    [ shape  |-> LINE_PATTERN(strip(l)) # NoMatch,
      sender |-> IF LINE_PATTERN(strip(l)) = NoMatch THEN ""
                 ELSE LINE_PATTERN(strip(l))[2],
      parses |-> /\ LINE_PATTERN(strip(l)) # NoMatch
                 /\ ParsingFormats(LINE_PATTERN(strip(l))[1]) # {},
      first  |-> IF \/ LINE_PATTERN(strip(l)) = NoMatch
                    \/ ParsingFormats(LINE_PATTERN(strip(l))[1]) = {}
                 THEN None
                 ELSE strptime(LINE_PATTERN(strip(l))[1],
                        formats[Min(ParsingFormats(LINE_PATTERN(strip(l))[1]))]) ]

\* every line's dating, evaluated once
dating == [l \in AllLines |-> Dating(l)]

\* C7 as stated: a line of the shape of a timestamped message is counted as
\* a message if and only if its date-and-time parses under one of the four
\* formats.
C7_ShapeCountedIffParses ==
    [][\A l \in GrammarLines :
          (dating[l].shape /\ Reads(l)) =>
             ((total_messages' = total_messages + 1) <=> dating[l].parses)]_vars

\* the record of name, or what a new record starts from
RecordOf(ps, name) ==
    IF name \in Names(ps) THEN ps[IndexOf(ps, name)]
    ELSE [sender |-> name, messages |-> 0, last |-> None]

\* C7 amended: a line of the shape of a timestamped message that matches
\* neither the added nor the joined pattern is counted as a message if and
\* only if its date-and-time parses in full under one of the four formats;
\* the timestamp is the one of the first format that parses ("12/5/23,
\* 14:05" is the 12th of May); if none parses nothing changes and the sender
\* gets no record.
C7_MessageCountedIffParses ==
    [][\A l \in GrammarLines :
          (/\ dating[l].shape
           /\ ~reading[l].added /\ ~reading[l].joined
           /\ Reads(l)) =>
             IF dating[l].parses
             THEN /\ total_messages' = total_messages + 1
                  /\ counted' = counted \cup
                        {<<dating[l].sender, dating[l].first[1]>>}
                  /\ RecordOf(participants', dating[l].sender).messages =
                        RecordOf(participants, dating[l].sender).messages + 1
                  /\ l = "12/5/23, 14:05 - Alice: hello" =>
                        dating[l].first = Some(DateTime(2023, 5, 12, 14, 5))
                  /\ l = "12/5/2023, 2:05 PM - Alice: other locale" =>
                        dating[l].first = Some(DateTime(2023, 12, 5, 14, 5))
             ELSE /\ UNCHANGED <<participants, total_messages, counted>>
                  /\ dating[l].sender \in Names(participants')
                        => dating[l].sender \in Names(participants)]_vars

\* "12/5/23, 14:05 - Alice: hello" was counted at the 12th of May 2023, and
\* Frank, whose line with a 13th month was read after it, has no record
C7_Witness ==
    /\ line = Some("13/13/23, 14:05 - Frank: hi")
    /\ total_messages = 1
    /\ counted = {<<"Alice", DateTime(2023, 5, 12, 14, 5)>>}
    /\ \E i \in 1..Len(participants) :
          participants[i] = [sender |-> "Alice", messages |-> 1,
                             last |-> Some(DateTime(2023, 5, 12, 14, 5))]
    /\ "Frank" \notin Names(participants)
    /\ dating["13/13/23, 14:05 - Frank: hi"].shape
    /\ ~dating["13/13/23, 14:05 - Frank: hi"].parses
    /\ ~dating["12/5/23, 2:05PM - Frank: yo"].parses
    /\ ~dating["31/4/123, 10:00 - Frank: three-digit year"].parses

\* |x|
Abs(x) == IF x < 0 THEN 0 - x ELSE x

\* C8: once analyze_chat has returned, every record, the records of members
\* who were only added or joined included, has a contributionPercent; with
\* no message in the transcript it is 0 for every record, and otherwise it is
\* the hundredth nearest to messageCount / totalMessages * 100, totalMessages
\* being the total of the whole transcript, and lies between 0 and 100.  The
\* contribution is held in hundredths of a percent.
C8_Contribution ==
    pc # "analyze_chat" =>
      \A i \in 1..Len(participants) :
         \E c \in {participants[i].contribution} :
            /\ total_messages = 0 => c = 0
            /\ total_messages > 0 =>
                  2 * Abs(c * total_messages
                          - participants[i].messages * 10000) <= total_messages
            /\ participants[i].messages = 0 => c = 0
            /\ 0 <= c /\ c <= 10000

\* a transcript of ten messages, two of them Alice's, and Bob who was only
\* added: Alice has 20.00, Carol 80.00 and Bob 0
C8_Witness ==
    /\ pc # "analyze_chat"
    /\ total_messages = 10
    /\ \E i, j, k \in 1..Len(participants) :
          /\ participants[i].sender = "Alice"
          /\ participants[i].messages = 2
          /\ participants[i].contribution = 2000
          /\ participants[j].sender = "Bob"
          /\ participants[j].messages = 0
          /\ participants[j].last = None
          /\ participants[j].contribution = 0
          /\ participants[k].sender = "Carol"
          /\ participants[k].contribution = 8000

\* the instants of the messages counted for name
CountedAt(name) == {c[2] : c \in {d \in counted : d[1] = name}}

\* every record's last is the latest instant counted for its sender
LastIsMax ==
    \A i \in 1..Len(participants) :
       participants[i].last =
          IF CountedAt(participants[i].sender) = {} THEN None
          ELSE Some(Max(CountedAt(participants[i].sender)))

\* C9: in every step of a run no record is removed or renamed, no
\* messageCount decreases and no lastMessageTimestamp is lost or moves to an
\* earlier instant; reading a line that is counted adds exactly 1 to the
\* messageCount of the record of exactly its sender (names differing in case
\* are different senders) and to no other; and after every step each
\* record's lastMessageTimestamp is the latest instant among its sender's
\* counted messages, whatever the order of the lines.
C9_AppendOnlyMonotone ==
    [][/\ Len(participants') >= Len(participants)
       /\ \A i \in 1..Len(participants) :
             /\ participants'[i].sender = participants[i].sender
             /\ participants'[i].messages >= participants[i].messages
             /\ participants[i].last # None =>
                   /\ participants'[i].last # None
                   /\ participants'[i].last[1] >= participants[i].last[1]
       /\ \A l \in GrammarLines :
             (IsCounted(l) /\ Reads(l)) =>
                \A i \in 1..Len(participants') :
                   participants'[i].messages =
                      RecordOf(participants, participants'[i].sender).messages
                      + (IF participants'[i].sender = dating[l].sender
                         THEN 1 ELSE 0)
       /\ LastIsMax']_vars

\* Alice's message of the 5th of December was read before her message of
\* the 12th of May: she has two messages and the December instant, and
\* "alice", whose line was read last, has a record of her own
C9_Witness ==
    /\ line = Some("12/5/23, 14:05 - alice: lower case")
    /\ counted = { <<"Alice", DateTime(2023, 12, 5, 14, 5)>>,
                   <<"Alice", DateTime(2023, 5, 12, 14, 5)>>,
                   <<"alice", DateTime(2023, 5, 12, 14, 5)>> }
    /\ participants =
          << [sender |-> "Alice", messages |-> 2,
              last |-> Some(DateTime(2023, 12, 5, 14, 5))],
             [sender |-> "alice", messages |-> 1,
              last |-> Some(DateTime(2023, 5, 12, 14, 5))] >>

\* the rows of one status
RowsOf(rows, status) ==
    Cardinality({i \in 1..Len(rows) : rows[i].status = status})

\* C10: within one run the summary of print_report counts the rows its
\* table labels Active and Inactive, the summary rows of the CSV count the
\* CSV's rows of each status, and the pie chart shows these same numbers,
\* each call site reading its own now.
C10_OutputsAgree ==
    /\ console # <<>> =>
          /\ console.active_count = RowsOf(console.rows, "Active")
          /\ console.inactive_count = RowsOf(console.rows, "Inactive")
    /\ csv # <<>> =>
          /\ csv.active_members = RowsOf(csv.rows, "Active")
          /\ csv.inactive_members = RowsOf(csv.rows, "Inactive")
    /\ pie # <<>> =>
          /\ pie.active_count = console.active_count
          /\ pie.inactive_count = console.inactive_count
          /\ pie.active_count = csv.active_members
          /\ pie.inactive_count = csv.inactive_members

=============================================================================
